---- MODULE Spec2Model ----
(***************************************************************************)
(* Model of the scoreboard demo server (src/src/problem6/demo/server.js):  *)
(* the in-memory maps users, actionTokens and rateLimits, the signed       *)
(* tokens handed to clients, and the request handlers that read and write  *)
(* them.  Node runs each handler to completion, so one handler call is one *)
(* action.  Time is the value of Date.now() in milliseconds.               *)
(***************************************************************************)
EXTENDS Integers, Sequences, FiniteSets, TLC

\* ---------------------------------------------------------------- bounds
MaxOps == 4
MaxRateOps == 13
MaxRateTicks == 1
MaxTimingOps == 2
MaxQueryOps == 3
MaxAuthOps == 3
MaxBroadcastOps == 4
MaxSockets == 1
MaxConcurrentOps == 6
MaxResources == 1
MaxUpdateResources == 2
MaxN == 8

\* ------------------------------------------------------ program constants
RATE_LIMIT_MAX == 10
RATE_WINDOW_MS == 60000
MIN_TIME_MS == 1000
MAX_TIME_MS == 300000
DEFAULT_TIME_MS == 10000
SCORE_INCREMENT == 100
ACTION_TTL_S == 300
ACTION_TTL_MS == 300000
LOGIN_TTL_S == 3600
RANK_LIMIT == 100
TOP_LIMIT == 10
RETRY_AFTER_S == 60
DEFAULT_LIMIT == 10
FLUSH_INTERVAL_MS == 1000

\* ------------------------------------------------------------ input sets
Users == {1, 2}          \* user-1 and user-2 of the demo users
RateUsers == {1}
TokenIds == {1, 2, 3}    \* the actionIds a client may name
InitScores == {0, 100}
Steps == {1000, 300001}
RateSteps == {59999, 60000}
Limits == {-1, 0, 1, 2, 10}
CompletionTimes == {999, 5000}
TimingCompletionTimes == {0, 999, 1000, 300000, 300001}
RateCompletionTimes == {999, 1000}
AuthSteps == {1000, 3600000}
BroadcastSteps == {999}
ConcurrentSteps == {1}
CrudSteps == {1000}

\* the request body's proof: completionTime may be absent
NoProof == [present |-> FALSE, completionTime |-> 0]
Proofs(cts) == {[present |-> TRUE, completionTime |-> c] : c \in cts}

\* a string that is not a token signed with JWT_SECRET
InvalidJwt == [userId |-> 0, exp |-> 0, actionId |-> 0]

\* a request without an "Authorization: Bearer ..." header
NoHeader == [userId |-> 0, exp |-> 0, actionId |-> -1]

\* req.query.limit: absent, or the integer parseInt reads
NoLimit == [present |-> FALSE, value |-> 0]
QueryLimits == {[present |-> TRUE, value |-> n] : n \in Limits} \cup {NoLimit}

VARIABLES
  now,          \* Date.now(), ms
  ticks,        \* number of clock advances so far
  users,        \* userId -> [score, totalActions]
  actionTokens, \* actionId -> [token, userId, used, createdAt]
  rateLimits,   \* userId -> sequence of timestamps
  last,         \* the last request, as far as the handler read it, and its response
  sockets,      \* connected socket -> the events it has received, in order
  accepted,     \* history: userId -> every timestamp the rate check recorded
  okCount,      \* history: actionId -> number of successful completions
  lastUpdated,  \* history: userId -> time of the last score change
  hitLimit,     \* history: userId -> a request of the user was rate limited
  retryAt,      \* history: userId -> the time the last 429 said to retry at
  resources,    \* the resources table of the CRUD API: id -> row
  nextId,       \* the next AUTOINCREMENT id of the resources table
  reply,        \* the last request to the CRUD API and its response
  sum           \* the last calls of the sum_to_n functions and their results

vars == <<now, ticks, users, actionTokens, rateLimits, last, sockets,
          accepted, okCount, lastUpdated, hitLimit, retryAt,
          resources, nextId, reply, sum>>

\* the state of the scoreboard server, the clock apart
serverVars == <<users, actionTokens, rateLimits, last, sockets,
                accepted, okCount, lastUpdated, hitLimit, retryAt>>

\* the state of the other two programs
otherVars == <<resources, nextId, reply, sum>>

\* ------------------------------------------------------------- helpers
Min(a, b) == IF a < b THEN a ELSE b
Max(a, b) == IF a > b THEN a ELSE b

\* seconds since the epoch, as jsonwebtoken computes iat and clockTimestamp
Seconds(ms) == ms \div 1000

\* jwt.sign(payload, JWT_SECRET, {expiresIn}); login tokens carry no actionId
Sign(userId, actionId, ttl, t) ==
  [userId |-> userId, exp |-> Seconds(t) + ttl, actionId |-> actionId]

\* generateToken(user): the login token, valid for one hour
generateToken(userId, t) == Sign(userId, 0, LOGIN_TTL_S, t)

\* the action tokens signed so far
ActionJwts == {actionTokens[a].token : a \in DOMAIN actionTokens}

\* login changes no server state, so a client may hold a login token issued
\* at any time up to now
SignedAt(token, t) ==
  \/ token \in ActionJwts
  \/ /\ token.actionId = 0
     /\ token.userId \in Users
     /\ token.exp - LOGIN_TTL_S \in 0..Seconds(t)

\* verifyToken(token): the payload, or null for a bad signature or expiry
verifyTokenOk(token, t) ==
  /\ SignedAt(token, t)
  /\ Seconds(t) < token.exp

\* a middleware that checks the signature and forgets the expiry
authenticateNoExpiry(bearer, t) == SignedAt(bearer, t)

\* authenticate(req): the bearer token verifies and names the caller
authenticate(bearer, t) == verifyTokenOk(bearer, t)

\* the error of the 401 response authenticate sends
AuthError(bearer) ==
  IF bearer = NoHeader THEN "Unauthorized" ELSE "Invalid token"

NoResponse ==
  [op |-> "none", bearer |-> NoHeader, userId |-> 0, token |-> InvalidJwt,
   actionId |-> 0, proof |-> NoProof, limit |-> NoLimit, status |-> 0,
   error |-> "", newScore |-> 0, score |-> 0, totalActions |-> 0,
   rank |-> 0, expiresAt |-> 0, retryAfter |-> 0, leaderboard |-> << >>,
   emitted |-> << >>]

\* the 401 response of a handler behind authenticate
Unauthorized(op, bearer) ==
  [NoResponse EXCEPT !.op = op, !.bearer = bearer, !.status = 401,
                     !.error = AuthError(bearer)]

\* ---------------------------------------------------------- leaderboard
\* an insertion that puts x before the entries it ties with
RECURSIVE InsertBeforeTies(_, _)
InsertBeforeTies(sorted, x) ==
  IF sorted = << >> THEN << x >>
  ELSE IF x.score >= Head(sorted).score THEN << x >> \o sorted
  ELSE << Head(sorted) >> \o InsertBeforeTies(Tail(sorted), x)

\* stable insertion of x into a list sorted with the comparator
\* (a, b) => b.score - a.score: x goes after every entry it does not beat
RECURSIVE InsertByScore(_, _)
InsertByScore(sorted, x) ==
  IF sorted = << >> THEN << x >>
  ELSE IF x.score > Head(sorted).score THEN << x >> \o sorted
  ELSE << Head(sorted) >> \o InsertByScore(Tail(sorted), x)

\* Array.prototype.sort is stable
RECURSIVE SortByScore(_)
SortByScore(list) ==
  IF list = << >> THEN << >>
  ELSE InsertByScore(SortByScore(SubSeq(list, 1, Len(list) - 1)),
                     list[Len(list)])

\* Array.prototype.slice(0, end): a negative end counts from the back
Slice(list, end) ==
  LET e == IF end < 0 THEN Max(Len(list) + end, 0) ELSE Min(end, Len(list))
  IN SubSeq(list, 1, e)

\* getLeaderboard(limit) over a users map; Array.from(users.values()) lists
\* the users in insertion order, user-1 first
LeaderboardOf(us, limit, t) ==
  LET list == [i \in 1..Cardinality(Users) |->
                 [userId |-> i, score |-> us[i].score]]
      top  == Slice(SortByScore(list), limit)
  IN [i \in 1..Len(top) |->
        [rank |-> i, userId |-> top[i].userId, score |-> top[i].score,
         updatedAt |-> t]]

getLeaderboard(limit) == LeaderboardOf(users, limit, now)

\* leaderboard.findIndex(entry => entry.userId === userId), 0-based, -1 if none
RECURSIVE FindFrom(_, _, _)
FindFrom(board, userId, i) ==
  IF i > Len(board) THEN -1
  ELSE IF board[i].userId = userId THEN i - 1
  ELSE FindFrom(board, userId, i + 1)

findIndex(board, userId) == FindFrom(board, userId, 1)

\* a rank that forgets the + 1 after findIndex
RankOfZeroBased(us, userId, t) ==
  findIndex(LeaderboardOf(us, RANK_LIMIT, t), userId)

\* newRank: getLeaderboard(100).findIndex(...) + 1
RankOf(us, userId, t) ==
  findIndex(LeaderboardOf(us, RANK_LIMIT, t), userId) + 1

\* parseInt(req.query.limit) || 10: NaN and 0 give the default
LimitOf(query) ==
  IF query.present /\ query.value # 0 THEN query.value ELSE DEFAULT_LIMIT

\* ------------------------------------------------------------ broadcast
\* a handler that sends only the personal score update
CompletionEventsScoreOnly(us, userId, oldScore, newRank, t) ==
  << [event |-> "score:update", userId |-> userId, oldScore |-> oldScore,
      newScore |-> us[userId].score, increment |-> SCORE_INCREMENT,
      newRank |-> newRank] >>

\* the two io.emit calls of a successful completion, made after the score
\* update: us is the users map with the new score
CompletionEvents(us, userId, oldScore, newRank, t) ==
  << [event |-> "leaderboard:update",
      leaderboard |-> LeaderboardOf(us, TOP_LIMIT, t), updatedAt |-> t],
     [event |-> "score:update", userId |-> userId, oldScore |-> oldScore,
      newScore |-> us[userId].score, increment |-> SCORE_INCREMENT,
      newRank |-> newRank] >>

\* io.emit(...): every connected socket receives the events
Broadcast(socks, events) == [s \in DOMAIN socks |-> socks[s] \o events]

\* a connection handler that sends nothing
NoInitialEvents(us, t) == << >>

\* socket.emit('leaderboard:initial', ...) on connection
InitialEvents(us, t) ==
  << [event |-> "leaderboard:initial",
      leaderboard |-> LeaderboardOf(us, TOP_LIMIT, t), updatedAt |-> t] >>

\* ----------------------------------------------------------- the score
\* an update that subtracts the increment
SubtractScore(user, increment) ==
  [user EXCEPT !.score = @ - increment, !.totalActions = @ + 1]

\* an update whose increment is lost
LoseScore(user, increment) ==
  [user EXCEPT !.totalActions = @ + 1]

\* user.score += scoreIncrement; user.totalActions += 1
AddScore(user, increment) ==
  [user EXCEPT !.score = @ + increment, !.totalActions = @ + 1]

\* ------------------------------------------------------- rate limiting
\* a filter that keeps an entry exactly one window old
RecentActionsInclusive(userLimits, t) ==
  SelectSeq(userLimits, LAMBDA time : t - time <= RATE_WINDOW_MS)

\* a rate check that never evicts
RecentActionsKeepAll(userLimits, t) == userLimits

\* userLimits.filter(time => now - time < 60000)
RecentActions(userLimits, t) ==
  SelectSeq(userLimits, LAMBDA time : t - time < RATE_WINDOW_MS)

\* a limit test that lets one action too many through
RateExceededOffByOne(recentActions) == Len(recentActions) > RATE_LIMIT_MAX

\* recentActions.length >= 10
RateExceeded(recentActions) == Len(recentActions) >= RATE_LIMIT_MAX

\* ------------------------------------------------------ completion time
\* a handler without the default: an absent completionTime reads as 0
CompletionTimeNoDefault(proof) == proof.completionTime

\* proof.completionTime || 10000
CompletionTimeOf(proof) ==
  IF proof.present /\ proof.completionTime # 0
  THEN proof.completionTime ELSE DEFAULT_TIME_MS

\* a timing check that forgets the lower bound
SuspiciousTimeUpperOnly(completionTime) == completionTime > MAX_TIME_MS

\* completionTime < 1000 || completionTime > 300000
SuspiciousTime(completionTime) ==
  completionTime < MIN_TIME_MS \/ completionTime > MAX_TIME_MS

\* ------------------------------------------------------- token checks
\* !decoded || decoded.userId !== userId
InvalidActionToken(token, userId, t) ==
  ~verifyTokenOk(token, t) \/ token.userId # userId

\* a lookup that forgets the used flag
TokenMissing(actionId) == actionId \notin DOMAIN actionTokens

\* !storedToken || storedToken.used
TokenUsedOrMissing(actionId) ==
  actionId \notin DOMAIN actionTokens \/ actionTokens[actionId].used

\* a handler that marks the token used before the anti-cheat checks
RejectedTokensConsumed(actionId) ==
  [actionTokens EXCEPT ![actionId].used = TRUE]

\* actionTokens when the handler returns from a failed anti-cheat check:
\* storedToken.used = true has not run
RejectedTokens(actionId) == actionTokens

\* ------------------------------------------------- the CRUD resource API
\* a JSON value of a request body or a column: a string (a sequence of
\* characters, " " being white space), null, or undefined (absent)
Undefined == [kind |-> "undefined", text |-> << >>]
Null == [kind |-> "null", text |-> << >>]
Text(chars) == [kind |-> "text", text |-> chars]
Active == Text(<< "active" >>)

\* JavaScript truthiness of such a value: a non-empty string
Truthy(v) == v.kind = "text" /\ v.text # << >>

\* String.prototype.trim, one end after the other
RECURSIVE TrimStart(_)
TrimStart(chars) ==
  IF chars # << >> /\ Head(chars) = " " THEN TrimStart(Tail(chars)) ELSE chars

RECURSIVE TrimEnd(_)
TrimEnd(chars) ==
  IF chars # << >> /\ chars[Len(chars)] = " "
  THEN TrimEnd(SubSeq(chars, 1, Len(chars) - 1)) ELSE chars

Trim(chars) == TrimEnd(TrimStart(chars))

\* value.trim() on a string
TrimValue(v) == Text(Trim(v.text))

\* value?.trim(): undefined for null and undefined
OptionalTrim(v) == IF v.kind = "text" THEN TrimValue(v) ELSE Undefined

\* value || other
OrElse(v, other) == IF Truthy(v) THEN v ELSE other

\* !name || typeof name !== 'string' || name.trim().length === 0
NameMissing(name) == ~Truthy(name) \/ Trim(name.text) = << >>

\* the request bodies the clients send
NoBody ==
  [name |-> Undefined, description |-> Undefined, category |-> Undefined,
   status |-> Undefined]

CreateBodies ==
  { NoBody,
    [NoBody EXCEPT !.name = Text(<< >>)],
    [NoBody EXCEPT !.name = Text(<< " " >>)],
    [NoBody EXCEPT !.name = Text(<< " ", "a" >>)],
    [NoBody EXCEPT !.name = Text(<< "a" >>), !.description = Text(<< "d" >>),
                   !.status = Text(<< "x" >>)] }

UpdateBodies ==
  { NoBody,
    [NoBody EXCEPT !.name = Text(<< "b", " " >>)],
    [NoBody EXCEPT !.name = Text(<< " " >>)],
    [NoBody EXCEPT !.name = Text(<< >>), !.description = Text(<< "e" >>)],
    [NoBody EXCEPT !.description = Text(<< >>)],
    [NoBody EXCEPT !.name = Null, !.description = Text(<< "e" >>)] }

\* req.params.id after parseInt: a number or NaN
NaNId == [nan |-> TRUE, value |-> 0]
IdParams == {NaNId} \cup {[nan |-> FALSE, value |-> i] : i \in 1..3}

NoRow ==
  [id |-> 0, name |-> Null, description |-> Null, category |-> Null,
   status |-> Null, created_at |-> 0, updated_at |-> 0]

NoReply ==
  [op |-> "none", id |-> NaNId, body |-> NoBody, status |-> 0,
   error |-> "", data |-> NoRow]

\* ResourceService.create: the row INSERT stores under the next id
NewRow(id, resource, t) ==
  [id |-> id, name |-> resource.name,
   description |-> OrElse(resource.description, Null),
   category |-> OrElse(resource.category, Null),
   status |-> OrElse(resource.status, Active),
   created_at |-> t, updated_at |-> t]

\* an UPDATE that writes every column, null for the fields not supplied
UpdatedRowAll(row, updates, t) ==
  [row EXCEPT !.name = updates.name,
              !.description =
                 IF updates.description.kind = "undefined" THEN Null
                 ELSE updates.description,
              !.category =
                 IF updates.category.kind = "undefined" THEN Null
                 ELSE updates.category,
              !.status =
                 IF updates.status.kind = "undefined" THEN Null
                 ELSE updates.status,
              !.updated_at = t]

\* ResourceService.update on an existing row: SET the columns whose field is
\* not undefined, and updated_at; nothing when no field is
UpdatedRow(row, updates, t) ==
  IF \A f \in DOMAIN updates : updates[f].kind = "undefined" THEN row
  ELSE [row EXCEPT
          !.name = IF updates.name.kind # "undefined"
                   THEN updates.name ELSE @,
          !.description = IF updates.description.kind # "undefined"
                          THEN updates.description ELSE @,
          !.category = IF updates.category.kind # "undefined"
                       THEN updates.category ELSE @,
          !.status = IF updates.status.kind # "undefined"
                     THEN updates.status ELSE @,
          !.updated_at = t]

\* a DELETE that removes nothing
DeleteNothing(rows, id) == rows

\* DELETE FROM resources WHERE id = ?
DeleteRow(rows, id) == [i \in DOMAIN rows \ {id} |-> rows[i]]

\* INSERT: the table with row stored under id
InsertRow(rows, id, row) ==
  [i \in DOMAIN rows \cup {id} |-> IF i = id THEN row ELSE rows[i]]

\* ------------------------------------------------------------ sum_to_n
\* n * (n + 1) / 2; n * (n + 1) is even, so the division is exact
sum_to_n_a(n) == (n * (n + 1)) \div 2

\* for (let i = 1; i <= n; i++) sum += i
RECURSIVE SumLoop(_, _, _)
SumLoop(i, n, acc) == IF i <= n THEN SumLoop(i + 1, n, acc + i) ELSE acc

sum_to_n_b(n) == SumLoop(1, n, 0)

RECURSIVE sum_to_n_c(_)
sum_to_n_c(n) == IF n <= 0 THEN 0 ELSE n + sum_to_n_c(n - 1)

NoSum == [n |-> 0, done |-> {}, a |-> 0, b |-> 0, c |-> 0]

\* ------------------------------------------------------------- Init
Init ==
  /\ now = 0
  /\ ticks = 0
  /\ users \in [Users -> [score : InitScores, totalActions : {0}]]
  /\ actionTokens = << >>
  /\ rateLimits = [u \in Users |-> << >>]
  /\ last = NoResponse
  /\ sockets = << >>
  /\ accepted = [u \in Users |-> << >>]
  /\ okCount = [a \in TokenIds |-> 0]
  /\ lastUpdated = [u \in Users |-> 0]
  /\ hitLimit = [u \in Users |-> FALSE]
  /\ retryAt = [u \in Users |-> 0]
  /\ resources = << >>
  /\ nextId = 1
  /\ reply = NoReply
  /\ sum = NoSum

\* ------------------------------------------------------------ actions
\* POST /auth/login with a demo user's name and password
Login(u) ==
  /\ UNCHANGED otherVars
  /\ last' = [NoResponse EXCEPT !.op = "login", !.userId = u, !.status = 200]
  /\ UNCHANGED <<now, ticks, users, actionTokens, rateLimits, sockets,
                 accepted, okCount, lastUpdated, hitLimit, retryAt>>

\* GET /api/leaderboard?limit=...
GetLeaderboard(query) ==
  /\ UNCHANGED otherVars
  /\ last' = [NoResponse EXCEPT !.op = "leaderboard", !.limit = query,
                !.status = 200,
                !.leaderboard = getLeaderboard(LimitOf(query))]
  /\ UNCHANGED <<now, ticks, users, actionTokens, rateLimits, sockets,
                 accepted, okCount, lastUpdated, hitLimit, retryAt>>

\* POST /api/actions/request
RequestAction(bearer) ==
  /\ UNCHANGED otherVars
  /\ IF ~authenticate(bearer, now)
     THEN /\ last' = Unauthorized("request", bearer)
          /\ UNCHANGED actionTokens
     ELSE LET userId == bearer.userId
              actionId == Len(actionTokens) + 1
              actionToken == Sign(userId, actionId, ACTION_TTL_S, now)
          IN /\ actionTokens' = Append(actionTokens,
                  [token |-> actionToken, userId |-> userId, used |-> FALSE,
                   createdAt |-> now])
             /\ last' = [NoResponse EXCEPT !.op = "request",
                           !.bearer = bearer, !.userId = userId,
                           !.status = 200, !.actionId = actionId,
                           !.token = actionToken,
                           !.expiresAt = now + ACTION_TTL_MS]
  /\ UNCHANGED <<now, ticks, users, rateLimits, sockets,
                 accepted, okCount, lastUpdated, hitLimit, retryAt>>

\* POST /api/actions/complete
CompleteAction(bearer, actionToken, actionId, proof) ==
  /\ UNCHANGED otherVars
  /\ IF ~authenticate(bearer, now)
     THEN /\ last' = Unauthorized("complete", bearer)
          /\ UNCHANGED <<users, actionTokens, rateLimits, sockets, accepted,
                         okCount, lastUpdated, hitLimit, retryAt>>
     ELSE
     LET userId == bearer.userId
         recentActions == RecentActions(rateLimits[userId], now)
         completionTime == CompletionTimeOf(proof)
         req == [NoResponse EXCEPT !.op = "complete", !.bearer = bearer,
                                   !.userId = userId]
     IN IF InvalidActionToken(actionToken, userId, now)
        THEN /\ last' = [req EXCEPT !.status = 400,
                                    !.error = "Invalid action token"]
             /\ UNCHANGED <<users, actionTokens, rateLimits, sockets,
                            accepted, okCount, lastUpdated, hitLimit,
                            retryAt>>
        ELSE IF TokenUsedOrMissing(actionId)
        THEN /\ last' = [req EXCEPT !.token = actionToken,
                           !.actionId = actionId, !.status = 400,
                           !.error = "Token already used or expired"]
             /\ UNCHANGED <<users, actionTokens, rateLimits, sockets,
                            accepted, okCount, lastUpdated, hitLimit,
                            retryAt>>
        ELSE IF RateExceeded(recentActions)
        THEN /\ last' = [req EXCEPT !.token = actionToken,
                           !.actionId = actionId, !.status = 429,
                           !.error = "Rate limit exceeded",
                           !.retryAfter = RETRY_AFTER_S]
             /\ hitLimit' = [hitLimit EXCEPT ![userId] = TRUE]
             /\ retryAt' = [retryAt EXCEPT
                              ![userId] = now + RETRY_AFTER_S * 1000]
             /\ actionTokens' = RejectedTokens(actionId)
             /\ UNCHANGED <<users, rateLimits, sockets, accepted,
                            okCount, lastUpdated>>
        ELSE /\ rateLimits' = [rateLimits EXCEPT
                                 ![userId] = Append(recentActions, now)]
             /\ accepted' = [accepted EXCEPT
                               ![userId] = Append(accepted[userId], now)]
             /\ UNCHANGED <<hitLimit, retryAt>>
             /\ IF SuspiciousTime(completionTime)
                THEN /\ last' = [req EXCEPT !.token = actionToken,
                                   !.actionId = actionId, !.proof = proof,
                                   !.status = 400,
                                   !.error = "Suspicious completion time"]
                     /\ actionTokens' = RejectedTokens(actionId)
                     /\ UNCHANGED <<users, sockets, okCount, lastUpdated>>
                ELSE LET oldScore == users[userId].score
                         newUsers == [users EXCEPT ![userId] =
                                        AddScore(@, SCORE_INCREMENT)]
                         newRank == RankOf(newUsers, userId, now)
                         events == CompletionEvents(newUsers, userId,
                                                    oldScore, newRank, now)
                     IN /\ actionTokens' = [actionTokens EXCEPT
                                              ![actionId].used = TRUE]
                        /\ users' = newUsers
                        /\ sockets' = Broadcast(sockets, events)
                        /\ okCount' = [okCount EXCEPT ![actionId] = @ + 1]
                        /\ lastUpdated' = [lastUpdated EXCEPT ![userId] = now]
                        /\ last' = [req EXCEPT !.token = actionToken,
                                      !.actionId = actionId, !.proof = proof,
                                      !.status = 200,
                                      !.newScore = newUsers[userId].score,
                                      !.rank = newRank,
                                      !.emitted = events]
  /\ UNCHANGED <<now, ticks>>

\* GET /api/users/me/score
GetMyScore(bearer) ==
  /\ UNCHANGED otherVars
  /\ IF ~authenticate(bearer, now)
     THEN last' = Unauthorized("me", bearer)
     ELSE LET userId == bearer.userId
          IN last' = [NoResponse EXCEPT !.op = "me", !.bearer = bearer,
                        !.userId = userId, !.status = 200,
                        !.score = users[userId].score,
                        !.rank = RankOf(users, userId, now),
                        !.totalActions = users[userId].totalActions]
  /\ UNCHANGED <<now, ticks, users, actionTokens, rateLimits, sockets,
                 accepted, okCount, lastUpdated, hitLimit, retryAt>>

\* io.on('connection'): a client connects its socket
Connect ==
  /\ UNCHANGED otherVars
  /\ sockets' = Append(sockets, InitialEvents(users, now))
  /\ last' = [NoResponse EXCEPT !.op = "connect", !.status = 200]
  /\ UNCHANGED <<now, ticks, users, actionTokens, rateLimits,
                 accepted, okCount, lastUpdated, hitLimit, retryAt>>

\* the clock moves on by d ms between two requests
Advance(d) ==
  /\ UNCHANGED otherVars
  /\ now' = now + d
  /\ ticks' = ticks + 1
  /\ UNCHANGED <<users, actionTokens, rateLimits, last, sockets,
                 accepted, okCount, lastUpdated, hitLimit, retryAt>>

\* ------------------------------------------- actions of the CRUD API
\* POST /api/resources
CreateResource(body) ==
  /\ IF NameMissing(body.name)
     THEN /\ reply' = [NoReply EXCEPT !.op = "create", !.body = body,
                         !.status = 400,
                         !.error = "Name is required and must be a non-empty string"]
          /\ UNCHANGED <<resources, nextId>>
     ELSE LET resource ==
                [name |-> TrimValue(body.name),
                 description |-> OptionalTrim(body.description),
                 category |-> OptionalTrim(body.category),
                 status |-> OrElse(body.status, Active)]
              row == NewRow(nextId, resource, Seconds(now))
          IN /\ resources' = InsertRow(resources, nextId, row)
             /\ nextId' = nextId + 1
             /\ reply' = [NoReply EXCEPT !.op = "create", !.body = body,
                            !.status = 201, !.data = row]
  /\ UNCHANGED <<now, ticks, serverVars, sum>>

\* GET /api/resources/:id
GetResource(idParam) ==
  /\ LET req == [NoReply EXCEPT !.op = "get", !.id = idParam]
         id == idParam.value
     IN IF idParam.nan
        THEN reply' = [req EXCEPT !.status = 400,
                                  !.error = "Invalid resource ID"]
        ELSE IF id \notin DOMAIN resources
        THEN reply' = [req EXCEPT !.status = 404,
                                  !.error = "Resource not found"]
        ELSE reply' = [req EXCEPT !.status = 200, !.data = resources[id]]
  /\ UNCHANGED <<now, ticks, serverVars, sum, resources, nextId>>

\* PUT /api/resources/:id
UpdateResource(idParam, body) ==
  /\ LET req == [NoReply EXCEPT !.op = "update", !.id = idParam,
                                !.body = body]
         id == idParam.value
         updates ==
           [name |-> IF body.name.kind # "undefined"
                     THEN TrimValue(body.name) ELSE Undefined,
            description |-> IF body.description.kind # "undefined"
                            THEN TrimValue(body.description) ELSE Undefined,
            category |-> IF body.category.kind # "undefined"
                         THEN TrimValue(body.category) ELSE Undefined,
            status |-> body.status]
     IN IF idParam.nan
        THEN /\ reply' = [req EXCEPT !.status = 400,
                                     !.error = "Invalid resource ID"]
             /\ UNCHANGED resources
        ELSE IF \A f \in DOMAIN body : ~Truthy(body[f])
        THEN /\ reply' = [req EXCEPT !.status = 400,
                            !.error = "At least one field must be provided for update"]
             /\ UNCHANGED resources
        ELSE IF \E f \in {"name", "description", "category"} :
                  body[f].kind = "null"
        THEN \* null.trim() throws, the catch block answers
             /\ reply' = [req EXCEPT !.status = 500,
                                     !.error = "Internal server error"]
             /\ UNCHANGED resources
        ELSE IF id \notin DOMAIN resources
        THEN /\ reply' = [req EXCEPT !.status = 404,
                                     !.error = "Resource not found"]
             /\ UNCHANGED resources
        ELSE LET row == UpdatedRow(resources[id], updates, Seconds(now))
             IN /\ resources' = [resources EXCEPT ![id] = row]
                /\ reply' = [req EXCEPT !.status = 200, !.data = row]
  /\ UNCHANGED <<now, ticks, serverVars, sum, nextId>>

\* DELETE /api/resources/:id
DeleteResource(idParam) ==
  /\ LET req == [NoReply EXCEPT !.op = "delete", !.id = idParam]
         id == idParam.value
     IN IF idParam.nan
        THEN /\ reply' = [req EXCEPT !.status = 400,
                                     !.error = "Invalid resource ID"]
             /\ UNCHANGED resources
        ELSE /\ resources' = DeleteRow(resources, id)
             /\ IF id \in DOMAIN resources
                THEN reply' = [req EXCEPT !.status = 200]
                ELSE reply' = [req EXCEPT !.status = 404,
                                          !.error = "Resource not found"]
  /\ UNCHANGED <<now, ticks, serverVars, sum, nextId>>

\* ----------------------------------------------- calls of sum_to_n
\* a caller picks the argument
SumPick(n) ==
  /\ sum' = [NoSum EXCEPT !.n = n]
  /\ UNCHANGED <<now, ticks, serverVars, resources, nextId, reply>>

SumCallA ==
  /\ "a" \notin sum.done
  /\ sum' = [sum EXCEPT !.a = sum_to_n_a(sum.n), !.done = @ \cup {"a"}]
  /\ UNCHANGED <<now, ticks, serverVars, resources, nextId, reply>>

SumCallB ==
  /\ "b" \notin sum.done
  /\ sum' = [sum EXCEPT !.b = sum_to_n_b(sum.n), !.done = @ \cup {"b"}]
  /\ UNCHANGED <<now, ticks, serverVars, resources, nextId, reply>>

SumCallC ==
  /\ "c" \notin sum.done
  /\ sum' = [sum EXCEPT !.c = sum_to_n_c(sum.n), !.done = @ \cup {"c"}]
  /\ UNCHANGED <<now, ticks, serverVars, resources, nextId, reply>>

\* ------------------------------------------------------ specifications
\* the bearer tokens the clients of the users us send: a login token obtained
\* just before the request
Bearers(us) == {generateToken(u, now) : u \in us}

\* what a client may send as actionToken: any token signed with JWT_SECRET
\* (an action token or a login token), or a string that is not one
Presentable == ActionJwts \cup Bearers(Users) \cup {InvalidJwt}

\* the operations so far that changed the server's state: tokens issued,
\* requests the rate check recorded, clock advances
RECURSIVE SumLen(_, _)
SumLen(f, n) == IF n = 0 THEN 0 ELSE Len(f[n]) + SumLen(f, n - 1)

Issued == Len(actionTokens)
Recorded == SumLen(accepted, Cardinality(Users))
Ops == Issued + Recorded + ticks

DoLogin ==
  \E u \in Users : Login(u)

DoRequest ==
  \E bearer \in Bearers(Users) :
     /\ Ops < MaxOps
     /\ Len(actionTokens) < Cardinality(TokenIds)
     /\ RequestAction(bearer)

DoComplete ==
  \E bearer \in Bearers(Users), actionToken \in Presentable,
     actionId \in TokenIds, proof \in Proofs(CompletionTimes) :
       Ops < MaxOps /\ CompleteAction(bearer, actionToken, actionId, proof)

DoAdvance ==
  \E d \in Steps : Ops < MaxOps /\ Advance(d)

Next == DoAdvance \/ DoLogin \/ DoRequest \/ DoComplete

Spec == Init /\ [][Next]_vars

\* the timing check: every kind of completionTime, few operations
TimingRequest ==
  \E bearer \in Bearers(Users) : Ops < MaxTimingOps /\ RequestAction(bearer)

TimingComplete ==
  \E bearer \in Bearers(Users), actionToken \in Presentable,
     actionId \in TokenIds,
     proof \in Proofs(TimingCompletionTimes) \cup {NoProof} :
       Ops < MaxTimingOps /\ CompleteAction(bearer, actionToken, actionId, proof)

TimingAdvance ==
  \E d \in Steps : Ops < MaxTimingOps /\ Advance(d)

NextTiming == TimingAdvance \/ TimingRequest \/ TimingComplete

SpecTiming == Init /\ [][NextTiming]_vars

\* the rate limit: one user, many requests, clock steps around the window
InitRate ==
  /\ Init
  /\ \A u \in Users : users[u].score = 0

RateRequest ==
  \E bearer \in Bearers(RateUsers) :
     /\ Issued + Recorded < MaxRateOps
     /\ Issued < 2
     /\ RequestAction(bearer)

RateComplete ==
  \E bearer \in Bearers(RateUsers), actionToken \in ActionJwts,
     actionId \in {1, 2}, proof \in Proofs(RateCompletionTimes) :
       /\ Issued + Recorded < MaxRateOps
       /\ CompleteAction(bearer, actionToken, actionId, proof)

RateAdvance ==
  \E d \in RateSteps : ticks < MaxRateTicks /\ Advance(d)

NextRate == RateAdvance \/ RateRequest \/ RateComplete

SpecRate == InitRate /\ [][NextRate]_vars

\* the queries: the leaderboard and a user's own score and rank
QueryRequest ==
  \E bearer \in Bearers(Users) : Ops < MaxQueryOps /\ RequestAction(bearer)

QueryComplete ==
  \E bearer \in Bearers(Users), actionToken \in Presentable,
     actionId \in TokenIds, proof \in Proofs(CompletionTimes) :
       Ops < MaxQueryOps /\ CompleteAction(bearer, actionToken, actionId, proof)

QueryMyScore ==
  \E bearer \in Bearers(Users) : GetMyScore(bearer)

QueryLeaderboard ==
  \E query \in QueryLimits : GetLeaderboard(query)

QueryAdvance ==
  \E d \in Steps : Ops < MaxQueryOps /\ Advance(d)

NextQuery ==
  \/ QueryAdvance
  \/ QueryRequest
  \/ QueryComplete
  \/ QueryMyScore
  \/ QueryLeaderboard

SpecQuery == Init /\ [][NextQuery]_vars

\* authentication: requests without a header, with a string that is no
\* token, with a login token from the start that may have expired, with a
\* fresh login token, or with an action token
AuthBearers ==
  {NoHeader, InvalidJwt} \cup {generateToken(u, 0) : u \in Users}
    \cup Bearers(Users) \cup ActionJwts

AuthRequest ==
  \E bearer \in AuthBearers : Ops < MaxAuthOps /\ RequestAction(bearer)

AuthComplete ==
  \E bearer \in AuthBearers, actionToken \in Presentable,
     actionId \in TokenIds, proof \in Proofs(CompletionTimes) :
       Ops < MaxAuthOps /\ CompleteAction(bearer, actionToken, actionId, proof)

AuthMyScore ==
  \E bearer \in AuthBearers : GetMyScore(bearer)

AuthAdvance ==
  \E d \in AuthSteps : Ops < MaxAuthOps /\ Advance(d)

NextAuth == AuthAdvance \/ AuthRequest \/ AuthComplete \/ AuthMyScore

SpecAuth == Init /\ [][NextAuth]_vars

\* the broadcast channel: sockets connect and completions are broadcast
BroadcastConnect ==
  Len(sockets) < MaxSockets /\ Connect

BroadcastRequest ==
  \E bearer \in Bearers(Users) :
     Ops < MaxBroadcastOps /\ RequestAction(bearer)

BroadcastComplete ==
  \E bearer \in Bearers(Users), actionToken \in ActionJwts \cup {InvalidJwt},
     actionId \in TokenIds, proof \in Proofs(CompletionTimes) :
       /\ Ops < MaxBroadcastOps
       /\ CompleteAction(bearer, actionToken, actionId, proof)

BroadcastAdvance ==
  \E d \in BroadcastSteps : Ops < MaxBroadcastOps /\ Advance(d)

NextBroadcast ==
  \/ BroadcastAdvance
  \/ BroadcastConnect
  \/ BroadcastRequest
  \/ BroadcastComplete

SpecBroadcast == Init /\ [][NextBroadcast]_vars

\* concurrent completions: clients hold distinct valid tokens and each sends
\* one completion for its own token; the server handles the requests in
\* flight one at a time, in any order
ConcurrentRequest ==
  \E bearer \in Bearers(Users) :
     /\ Ops < MaxConcurrentOps
     /\ Len(actionTokens) < Cardinality(TokenIds)
     /\ RequestAction(bearer)

ConcurrentComplete ==
  \E actionId \in DOMAIN actionTokens, proof \in Proofs({DEFAULT_TIME_MS}) :
     /\ Ops < MaxConcurrentOps
     /\ ~actionTokens[actionId].used
     /\ CompleteAction(generateToken(actionTokens[actionId].userId, now),
                       actionTokens[actionId].token, actionId, proof)

ConcurrentAdvance ==
  \E d \in ConcurrentSteps : Ops < MaxConcurrentOps /\ Advance(d)

NextConcurrent == ConcurrentAdvance \/ ConcurrentRequest \/ ConcurrentComplete

SpecConcurrent == Init /\ [][NextConcurrent]_vars

\* the CRUD resource API: a few resources, every kind of body
CrudCreate ==
  \E body \in CreateBodies : nextId <= MaxResources /\ CreateResource(body)

CrudGet ==
  \E idParam \in IdParams : GetResource(idParam)

CrudUpdate ==
  \E idParam \in IdParams, body \in UpdateBodies :
     UpdateResource(idParam, body)

CrudDelete ==
  \E idParam \in IdParams : DeleteResource(idParam)

CrudAdvance ==
  \E d \in CrudSteps : ticks = 0 /\ Advance(d)

NextCrud == CrudAdvance \/ CrudCreate \/ CrudGet \/ CrudUpdate \/ CrudDelete

SpecCrud == InitRate /\ [][NextCrud]_vars

\* updates of the CRUD resource API: several resources side by side
UpdateCreate ==
  \E body \in CreateBodies :
     nextId <= MaxUpdateResources /\ CreateResource(body)

UpdateUpdate ==
  \E idParam \in IdParams, body \in UpdateBodies :
     UpdateResource(idParam, body)

UpdateAdvance ==
  \E d \in CrudSteps : ticks = 0 /\ Advance(d)

NextUpdate == UpdateAdvance \/ UpdateCreate \/ UpdateUpdate

SpecUpdate == InitRate /\ [][NextUpdate]_vars

\* the three sum_to_n functions called on the same argument
SumInputs == (0 - MaxN)..MaxN

SumChoose ==
  \E n \in SumInputs : SumPick(n)

NextSum == SumChoose \/ SumCallA \/ SumCallB \/ SumCallC

SpecSum == InitRate /\ [][NextSum]_vars

\* ------------------------------------------------------------- claims
AlreadyUsed == "Token already used or expired"
Suspicious == "Suspicious completion time"
RateLimited == "Rate limit exceeded"

\* a step in which the complete-action handler ran
CompleteStep == last'.op = "complete" /\ now' = now

\* the step changes at most the caller's score, by delta
ScoresChangeBy(userId, delta) ==
  \A u \in Users :
    users'[u].score = users[u].score + (IF u = userId THEN delta ELSE 0)

\* C1, as stated: for each action token at most one completion succeeds, and
\* every other request that presents the token is rejected with the
\* already-used error and changes no score.
C1_OthersAlreadyUsed ==
  /\ \A a \in TokenIds : okCount[a] <= 1
  /\ (last.op = "complete" /\ last.actionId \in DOMAIN actionTokens
        /\ last.status # 200) => last.error = AlreadyUsed

\* C1, amended: for each action token at most one completion succeeds and it
\* adds the increment to the caller's score once; every request that reaches
\* the token lookup after that success is rejected with the already-used
\* error; no rejected request changes a score.
C1_AtMostOnce ==
  [][CompleteStep =>
       /\ \A a \in TokenIds : okCount'[a] <= 1
       /\ last'.status = 200 =>
            /\ okCount[last'.actionId] = 0
            /\ okCount'[last'.actionId] = 1
            /\ ScoresChangeBy(last'.userId, SCORE_INCREMENT)
       /\ last'.status # 200 =>
            /\ okCount' = okCount
            /\ ScoresChangeBy(last'.userId, 0)
       /\ (last'.actionId \in DOMAIN actionTokens
             /\ okCount[last'.actionId] >= 1) => last'.error = AlreadyUsed
  ]_vars

\* a replay of a token after its successful completion was rejected
C1_Witness ==
  /\ last.op = "complete"
  /\ last.error = AlreadyUsed
  /\ last.actionId \in DOMAIN actionTokens
  /\ okCount[last.actionId] = 1
  /\ users[last.userId].score \in {s + SCORE_INCREMENT : s \in InitScores}

\* C2: a score changes only in a complete-action step in which the presented
\* token verified for the caller, the named record was unused and is now
\* used, the rate check admitted the request (fewer than 10 recorded actions
\* of the caller in the window) and the completion time was within bounds;
\* only the caller's score changes.
C2_ScoreOnlyAfterChecks ==
  [][(\E u \in Users : users'[u].score # users[u].score) =>
       LET caller == last'.userId
           a == last'.actionId
           ct == IF last'.proof.present /\ last'.proof.completionTime # 0
                 THEN last'.proof.completionTime ELSE DEFAULT_TIME_MS
           inWindow == {i \in 1..Len(accepted[caller]) :
                          now - accepted[caller][i] < RATE_WINDOW_MS}
       IN /\ CompleteStep
          /\ last'.status = 200
          /\ \A u \in Users \ {caller} : users'[u] = users[u]
          /\ last'.token.userId = caller
          /\ SignedAt(last'.token, now) /\ Seconds(now) < last'.token.exp
          /\ a \in DOMAIN actionTokens
          /\ ~actionTokens[a].used /\ actionTokens'[a].used
          /\ Cardinality(inWindow) < RATE_LIMIT_MAX
          /\ accepted'[caller] = Append(accepted[caller], now)
          /\ ct >= MIN_TIME_MS /\ ct <= MAX_TIME_MS
  ]_vars

\* a completion passed every check and changed the score
C2_Witness ==
  /\ last.op = "complete" /\ last.status = 200
  /\ actionTokens[last.actionId].used
  /\ lastUpdated[last.userId] = now

C4_OwnerOnly ==
  (last.op = "complete" /\ last.status = 200)
    => actionTokens[last.actionId].userId = last.userId

\* C5, as stated: a completion that presents a token later than the token's
\* expiresAt (issue time plus five minutes) is rejected and changes no score.
C5_ExpiredRejected ==
  [][(/\ CompleteStep
      /\ last'.actionId \in DOMAIN actionTokens
      /\ now > actionTokens[last'.actionId].createdAt + ACTION_TTL_MS)
     => (last'.status = 400 /\ users' = users)
  ]_vars

\* C6: a successful completion by u returns newScore = u's score before the
\* call + 100, stores it as u's score, and returns as rank the 1-based
\* position of u in the leaderboard computed after the update.
C6_NewScoreAndRank ==
  [][(CompleteStep /\ last'.status = 200) =>
       LET u == last'.userId
           board == LeaderboardOf(users', RANK_LIMIT, now)
       IN /\ last'.newScore = users[u].score + SCORE_INCREMENT
          /\ users'[u].score = last'.newScore
          /\ last'.rank \in 1..Len(board)
          /\ board[last'.rank].userId = u
  ]_vars

\* a successful completion that left its user second on the leaderboard
C6_Witness ==
  /\ last.op = "complete" /\ last.status = 200
  /\ last.rank = 2
  /\ last.newScore = users[last.userId].score
  /\ lastUpdated[last.userId] = now

\* the leaderboard is sorted by descending score
SortedDescending(board) ==
  \A i, j \in 1..Len(board) : i < j => board[i].score >= board[j].score

C7_SuspiciousIffOutOfBounds ==
  (/\ last.op = "complete"
   /\ last.proof.present
   /\ last.status = 200 \/ last.error = Suspicious)
  => (last.error = Suspicious <=>
        \/ last.proof.completionTime < MIN_TIME_MS
        \/ last.proof.completionTime > MAX_TIME_MS)

\* the number of u's recorded actions in the window of 60000 ms ending at t
WindowCount(acc, u, t) ==
  Cardinality({i \in 1..Len(acc[u]) :
                 acc[u][i] <= t /\ t - acc[u][i] < RATE_WINDOW_MS})

\* the times at which u's window can be fullest: each recorded action, and now
WindowEnds(acc, u, t) == {acc[u][i] : i \in 1..Len(acc[u])} \cup {t}

\* C8: for every user and every time t, at most 10 of the user's completions
\* were admitted by the rate check within the 60000 ms ending at t; a
\* completion that reaches the rate check when 10 are in the window is
\* rejected with 429 "Rate limit exceeded" and changes no score, and no
\* completion is rate limited with fewer.
C8_RateBound ==
  [][/\ \A u \in Users : \A t \in WindowEnds(accepted', u, now') :
          WindowCount(accepted', u, t) <= RATE_LIMIT_MAX
     /\ (CompleteStep /\ (last'.status = 429 \/ accepted' # accepted)) =>
          LET u == last'.userId
              full == WindowCount(accepted, u, now) >= RATE_LIMIT_MAX
          IN /\ full <=> last'.status = 429
             /\ full => /\ last'.error = RateLimited
                        /\ users' = users
                        /\ accepted' = accepted
             /\ ~full => accepted'[u] = Append(accepted[u], now)
  ]_vars

\* user 1 has ten admitted completions in the window and is rate limited
C8_Witness ==
  /\ last.op = "complete" /\ last.status = 429 /\ last.userId = 1
  /\ WindowCount(accepted, 1, now) = RATE_LIMIT_MAX
  /\ users[1].score > 0

\* C9: once a user has hit the rate limit and no action of the user was
\* recorded for at least 60000 ms, the user's next completion is not rejected
\* by the rate limit.
C9_WindowEviction ==
  [][(/\ CompleteStep
      /\ hitLimit[last'.userId]
      /\ \A i \in 1..Len(accepted[last'.userId]) :
            now - accepted[last'.userId][i] >= RATE_WINDOW_MS)
     => last'.status # 429
  ]_vars

\* user 1 hit the limit, waited out the window, and was admitted again
C9_Witness ==
  /\ hitLimit[1]
  /\ Len(accepted[1]) = RATE_LIMIT_MAX + 1
  /\ accepted[1][RATE_LIMIT_MAX + 1] = now
  /\ now - accepted[1][RATE_LIMIT_MAX] >= RATE_WINDOW_MS
  /\ last.op = "complete" /\ last.userId = 1 /\ last.status # 429

\* a response that reports a rank: a successful completion or a score query
ReportsRank == last.status = 200 /\ last.op \in {"complete", "me"}

InvalidToken == "Invalid action token"

\* C12: a completion rejected at the token step (the presented token does not
\* verify for the caller, or the named record is missing or used) is answered
\* 400 and changes no score or totalActions, no token record and no
\* rate-limit window, and sends no event; a completion that names a missing
\* or used record never gets past the token step.
C12_TokenRejectFrame ==
  [][CompleteStep =>
       /\ last'.error \in {InvalidToken, AlreadyUsed} =>
            /\ last'.status = 400
            /\ users' = users
            /\ actionTokens' = actionTokens
            /\ rateLimits' = rateLimits
            /\ sockets' = sockets
            /\ last'.emitted = << >>
       /\ (/\ last'.actionId # 0
           /\ \/ last'.actionId \notin DOMAIN actionTokens
              \/ actionTokens[last'.actionId].used)
          => last'.error = AlreadyUsed
  ]_vars

\* a completion that names no record was rejected while a token was
\* outstanding and a rate-limit window was not empty
C12_Witness ==
  /\ last.op = "complete" /\ last.error = AlreadyUsed
  /\ last.actionId \notin DOMAIN actionTokens
  /\ \E a \in DOMAIN actionTokens : ~actionTokens[a].used
  /\ \E u \in Users : Len(rateLimits[u]) > 0

\* the completion answered by r failed because no record exists for its
\* actionId; toks is the token store when r was sent
RecordNotFound(r, toks) ==
  /\ r.op = "complete" /\ r.status = 400
  /\ r.actionId # 0 /\ r.actionId \notin DOMAIN toks

\* the completion answered by r failed because its record was already used
RecordAlreadyUsed(r, toks) ==
  /\ r.op = "complete" /\ r.status = 400
  /\ r.actionId \in DOMAIN toks /\ toks[r.actionId].used

\* C13, as stated: the token failures are reported with distinguishable
\* errors; here, a completion that fails because no record exists and one
\* that fails because the record is used never get the same error value.
C13_DistinctTokenErrors ==
  [][(/\ CompleteStep
      /\ \/ RecordNotFound(last, actionTokens)
            /\ RecordAlreadyUsed(last', actionTokens')
         \/ RecordAlreadyUsed(last, actionTokens)
            /\ RecordNotFound(last', actionTokens'))
     => last'.error # last.error
  ]_vars

\* the positions of the events named event in a socket's inbox
EventsAt(inbox, event) == {i \in 1..Len(inbox) : inbox[i].event = event}

\* C14, as stated: a subscriber receives at most one leaderboard:update per
\* interval of 1000 ms, so any two updates it receives are at least 1000 ms
\* apart, however many completions succeed in between.
C14_OneUpdatePerInterval ==
  \A s \in DOMAIN sockets :
    \A i, j \in EventsAt(sockets[s], "leaderboard:update") :
      i < j =>
        sockets[s][j].updatedAt - sockets[s][i].updatedAt
          >= FLUSH_INTERVAL_MS

\* board is the top n of the users map us: the n best scores (all of them
\* when there are fewer users), in descending order, ranked from 1
IsTopOf(board, us, n) ==
  /\ Len(board) = Min(n, Cardinality(Users))
  /\ SortedDescending(board)
  /\ \A i \in 1..Len(board) :
       /\ board[i].rank = i
       /\ board[i].userId \in Users
       /\ board[i].score = us[board[i].userId].score
  /\ \A i, j \in 1..Len(board) : i # j => board[i].userId # board[j].userId
  /\ \A u \in Users :
       (\A i \in 1..Len(board) : board[i].userId # u) =>
         \A i \in 1..Len(board) : board[i].score >= us[u].score

\* C15: a socket that connects receives at once exactly one
\* leaderboard:initial event carrying the top 10 of that moment, and nobody
\* else receives anything; it stays the first event of the socket's inbox and
\* the only initial one, every later event being appended after it.
C15_InitialSnapshot ==
  [][/\ Len(sockets') # Len(sockets) =>
          LET inbox == sockets'[Len(sockets')]
          IN /\ Len(sockets') = Len(sockets) + 1
             /\ Len(inbox) = 1
             /\ inbox[1].event = "leaderboard:initial"
             /\ inbox[1].updatedAt = now
             /\ IsTopOf(inbox[1].leaderboard, users, TOP_LIMIT)
             /\ \A s \in DOMAIN sockets : sockets'[s] = sockets[s]
     /\ \A s \in DOMAIN sockets :
          /\ Len(sockets'[s]) >= Len(sockets[s])
          /\ SubSeq(sockets'[s], 1, Len(sockets[s])) = sockets[s]
     /\ \A s \in DOMAIN sockets' :
          EventsAt(sockets'[s], "leaderboard:initial") = {1}
  ]_vars

\* a socket received its initial snapshot and later an update with other
\* scores
C15_Witness ==
  \E s \in DOMAIN sockets :
    /\ Len(sockets[s]) >= 3
    /\ sockets[s][1].event = "leaderboard:initial"
    /\ sockets[s][2].event = "leaderboard:update"
    /\ \E i \in 1..Len(sockets[s][1].leaderboard) :
         sockets[s][1].leaderboard[i].score
           # sockets[s][2].leaderboard[i].score

\* C16: a successful completion broadcasts exactly one leaderboard:update,
\* whose snapshot is the top 10 after the score update and so lists the
\* caller with the new score, and every connected socket receives the
\* handler's events; a rejected completion broadcasts nothing.
C16_PublishOnSuccessOnly ==
  [][CompleteStep =>
       LET u == last'.userId
           out == last'.emitted
           updates == EventsAt(out, "leaderboard:update")
       IN /\ last'.status = 200 =>
               /\ Cardinality(updates) = 1
               /\ \A i \in updates :
                    /\ out[i].updatedAt = now
                    /\ IsTopOf(out[i].leaderboard, users', TOP_LIMIT)
                    /\ \E k \in 1..Len(out[i].leaderboard) :
                         /\ out[i].leaderboard[k].userId = u
                         /\ out[i].leaderboard[k].score
                              = users[u].score + SCORE_INCREMENT
               /\ \A s \in DOMAIN sockets : sockets'[s] = sockets[s] \o out
          /\ last'.status # 200 =>
               /\ out = << >>
               /\ sockets' = sockets
  ]_vars

\* a connected socket received the update of a successful completion after
\* its initial snapshot
C16_Witness ==
  /\ last.op = "complete" /\ last.status = 200
  /\ \E s \in DOMAIN sockets :
       /\ Len(sockets[s]) = 3
       /\ sockets[s][2] = last.emitted[1]
       /\ sockets[s][2].event = "leaderboard:update"
       /\ sockets[s][2].leaderboard # sockets[s][1].leaderboard

\* C17: no step of any operation lowers a user's score; a step leaves it
\* unchanged or adds the non-negative increment.
C17_ScoreNeverDecreases ==
  [][\A u \in Users :
       \/ users'[u].score = users[u].score
       \/ /\ users'[u].score = users[u].score + SCORE_INCREMENT
          /\ SCORE_INCREMENT >= 0
  ]_vars

\* a user's score was raised twice
C17_Witness ==
  \E u \in Users :
    /\ users[u].totalActions = 2
    /\ users[u].score \in {s + 2 * SCORE_INCREMENT : s \in InitScores}

\* C18, as stated: the leaderboard query with limit n returns exactly
\* min(n, number of users) entries for n > 0 and no entry for n <= 0.
C18_TopNLength ==
  (last.op = "leaderboard" /\ last.limit.present) =>
    LET n == last.limit.value
    IN Len(last.leaderboard)
         = IF n > 0 THEN Min(n, Cardinality(Users)) ELSE 0

\* the request carries no bearer token, or one that is not a signed token of
\* a user, or one that has expired
BadBearer(bearer, t) ==
  \/ bearer = NoHeader
  \/ bearer.userId \notin Users
  \/ Seconds(t) >= bearer.exp

\* C19: request-action-token, complete-action and get-my-score answer 401 to
\* a request with no bearer token or an invalid one, and a request answered
\* 401 changes no score, token record or rate-limit window.
C19_UnauthorizedRejected ==
  [][(now' = now /\ last'.op \in {"request", "complete", "me"}) =>
       /\ BadBearer(last'.bearer, now) => last'.status = 401
       /\ last'.status = 401 =>
            /\ last'.error \in {"Unauthorized", "Invalid token"}
            /\ users' = users
            /\ actionTokens' = actionTokens
            /\ rateLimits' = rateLimits
            /\ sockets' = sockets
  ]_vars

\* a completion sent with a login token that has expired was answered 401
\* while a token of the user was outstanding
C19_Witness ==
  /\ last.op = "complete" /\ last.status = 401
  /\ last.error = "Invalid token"
  /\ last.bearer.userId \in Users
  /\ Seconds(now) >= last.bearer.exp
  /\ \E a \in DOMAIN actionTokens :
       actionTokens[a].userId = last.bearer.userId

\* C20: a 429 response carries a positive retryAfter, the rate window in
\* seconds; and a completion of a user that reaches the rate check at or
\* after the time the user's last 429 said to retry at, no action of the user
\* having been recorded since that 429, is not rate limited.
C20_RetryAfterSuffices ==
  [][CompleteStep =>
       LET u == last'.userId
       IN /\ last'.status = 429 =>
               /\ last'.retryAfter > 0
               /\ last'.retryAfter * 1000 = RATE_WINDOW_MS
               /\ retryAt'[u] = now + last'.retryAfter * 1000
          /\ (/\ u \in Users
              /\ retryAt[u] > 0
              /\ now >= retryAt[u]
              /\ \A i \in 1..Len(accepted[u]) :
                   accepted[u][i] + RATE_WINDOW_MS <= retryAt[u])
             => last'.status # 429
  ]_vars

\* user 1 was rate limited, came back exactly retryAfter later and was
\* admitted by the rate check
C20_Witness ==
  /\ retryAt[1] = now
  /\ last.op = "complete" /\ last.userId = 1
  /\ last.status # 429 /\ last.actionId # 0
  /\ Len(accepted[1]) > RATE_LIMIT_MAX
  /\ accepted[1][Len(accepted[1])] = now

\* C21, as stated: issuing creates one new unused record under a new id and
\* changes no existing record, score or rate-limit window; a used token stays
\* used; and a token that has expired (now later than its issue time plus
\* five minutes) is never consumed.
C21_TokenLifecycle ==
  [][/\ Len(actionTokens') # Len(actionTokens) =>
          /\ Len(actionTokens') = Len(actionTokens) + 1
          /\ ~actionTokens'[Len(actionTokens')].used
          /\ actionTokens'[Len(actionTokens')].createdAt = now
          /\ SubSeq(actionTokens', 1, Len(actionTokens)) = actionTokens
          /\ users' = users
          /\ rateLimits' = rateLimits
     /\ \A a \in DOMAIN actionTokens :
          /\ actionTokens[a].used => actionTokens'[a].used
          /\ now > actionTokens[a].createdAt + ACTION_TTL_MS =>
               actionTokens'[a] = actionTokens[a]
  ]_vars

\* C25, as stated: a completion rejected for suspicious timing leaves the
\* caller's rate-limit window unchanged.
C25_TimingRejectKeepsWindow ==
  [][(CompleteStep /\ last'.error = Suspicious) =>
       rateLimits' = rateLimits
  ]_vars

\* C25, amended: a completion rejected for suspicious timing has passed the
\* rate check first, which evicted the entries older than 60000 ms and
\* recorded the request: the caller's window is its recent entries followed
\* by now, so the rejected request counts against the budget; nobody else's
\* window, no score and no token record changes.
C25_TimingRejectIsRecorded ==
  [][(CompleteStep /\ last'.error = Suspicious) =>
       LET u == last'.userId
           old == rateLimits[u]
           kept == {i \in 1..Len(old) : now - old[i] < RATE_WINDOW_MS}
       IN /\ Len(rateLimits'[u]) = Cardinality(kept) + 1
          /\ Cardinality(kept) < RATE_LIMIT_MAX
          /\ rateLimits'[u][Len(rateLimits'[u])] = now
          /\ \A i \in 1..Len(rateLimits'[u]) - 1 :
               now - rateLimits'[u][i] < RATE_WINDOW_MS
          /\ \A v \in Users \ {u} : rateLimits'[v] = rateLimits[v]
          /\ users' = users
          /\ actionTokens' = actionTokens
  ]_vars

\* ten completions of user 1 were rejected for their timing and filled the
\* window: the next one is rate limited although no score was ever added
C25_Witness ==
  /\ last.op = "complete" /\ last.status = 429 /\ last.userId = 1
  /\ Len(rateLimits[1]) = RATE_LIMIT_MAX
  /\ users[1].totalActions = 0

\* C26, as stated: a completion succeeds only when the presented actionId is
\* the id carried inside the presented signed actionToken.
C26_ActionIdBound ==
  (last.op = "complete" /\ last.status = 200)
    => last.token.actionId = last.actionId

\* C27: a user's stored window never holds more than 10 timestamps, and a
\* rate check that stores a window has evicted every timestamp of 60000 ms
\* ago or older: all it stores lie within the window ending now.
C27_WindowBounded ==
  [][\A u \in Users :
       /\ Len(rateLimits'[u]) <= RATE_LIMIT_MAX
       /\ rateLimits'[u] # rateLimits[u] =>
            \A i \in 1..Len(rateLimits'[u]) :
              /\ rateLimits'[u][i] <= now
              /\ now - rateLimits'[u][i] < RATE_WINDOW_MS
  ]_vars

\* user 1 filled the window, waited it out, and the next check stored a
\* window holding the new timestamp alone
C27_Witness ==
  /\ hitLimit[1]
  /\ Len(accepted[1]) = RATE_LIMIT_MAX + 1
  /\ rateLimits[1] = << now >>

\* C29: a completion without proof.completionTime that reaches the timing
\* check is treated as taking 10000 ms: it passes the check, marks the token
\* used and adds the increment to the caller's score, as a completion with a
\* genuine time does.
C29_MissingTimeDefaults ==
  [][(CompleteStep /\ accepted' # accepted /\ ~last'.proof.present) =>
       /\ DEFAULT_TIME_MS >= MIN_TIME_MS /\ DEFAULT_TIME_MS <= MAX_TIME_MS
       /\ last'.status = 200
       /\ actionTokens'[last'.actionId].used
       /\ ScoresChangeBy(last'.userId, SCORE_INCREMENT)
  ]_vars

\* a completion without a completionTime succeeded
C29_Witness ==
  /\ last.op = "complete" /\ last.status = 200
  /\ ~last.proof.present
  /\ okCount[last.actionId] = 1

\* the number of used token records issued to u
UsedBy(toks, u) ==
  Cardinality({a \in DOMAIN toks : toks[a].userId = u /\ toks[a].used})

\* C28: completions with distinct valid tokens, handled in any order, are
\* each applied whole: every one succeeds and adds the increment to its
\* caller alone, and in every state each user's score is its initial score
\* plus the increment times the number of its tokens consumed so far, so no
\* increment is lost and the scores do not depend on the order.
C28_AtomicCompletions ==
  [][/\ CompleteStep =>
          /\ last'.status = 200
          /\ ScoresChangeBy(last'.userId, SCORE_INCREMENT)
          /\ actionTokens'[last'.actionId].used
     /\ \A u \in Users :
          /\ users'[u].score - SCORE_INCREMENT * UsedBy(actionTokens', u)
               = users[u].score - SCORE_INCREMENT * UsedBy(actionTokens, u)
          /\ users'[u].totalActions = UsedBy(actionTokens', u)
  ]_vars

\* three completions, two of user 1 and one of user 2, have all been applied
C28_Witness ==
  /\ Len(actionTokens) = 3
  /\ \A a \in DOMAIN actionTokens : actionTokens[a].used
  /\ users[1].totalActions = 2 /\ users[2].totalActions = 1
  /\ users[1].score \in {s + 2 * SCORE_INCREMENT : s \in InitScores}
  /\ actionTokens[1].userId = 2

\* ---------------------------------------------------------------- C24
\* the sum of all integers from 1 to n: the sum of the set 1..n, 0 when the
\* set is empty
RECURSIVE SumOfSet(_)
SumOfSet(S) ==
  IF S = {} THEN 0
  ELSE LET x == CHOOSE y \in S : TRUE IN x + SumOfSet(S \ {x})

\* C24: for every integer n, once sum_to_n_a(n), sum_to_n_b(n) and
\* sum_to_n_c(n) have returned, the three results are the same value, the
\* sum of all integers from 1 to n.
C24_SumsAgree ==
  sum.done = {"a", "b", "c"} =>
     /\ sum.a = sum.b
     /\ sum.b = sum.c
     /\ sum.a = SumOfSet(1..sum.n)

\* ---------------------------------------------------------------- C22
\* the request just answered: a request of the CRUD API changes reply unless
\* it repeats the previous request with the same outcome
Answered(op, status) ==
  reply' # reply /\ reply'.op = op /\ reply'.status = status

\* every stored resource but i is the same before and after the step
OthersUnchanged(i) ==
  /\ DOMAIN resources' \ {i} = DOMAIN resources \ {i}
  /\ \A j \in DOMAIN resources \ {i} : resources'[j] = resources[j]

\* C22: a successful create stores the resource it returns under a fresh id,
\* with the supplied name (trimmed) and status 'active' when none was given;
\* get(i) returns the stored resource of id i, which stays stored until
\* delete(i) succeeds and changes only by a successful update(i); after a successful delete(i) the resource is gone, so
\* get(i) answers 404; deleting a non-existent id answers 404 and changes no
\* stored resource.
C22_CreateGetDelete ==
  [][ /\ Answered("create", 201) =>
           LET i == reply'.data.id
           IN /\ i \notin DOMAIN resources
              /\ \A j \in DOMAIN resources : j < i
              /\ i < nextId'
              /\ i \in DOMAIN resources'
              /\ resources'[i] = reply'.data
              /\ reply'.data.name = Text(Trim(reply'.body.name.text))
              /\ reply'.body.status.kind = "undefined" =>
                    reply'.data.status = Active
              /\ OthersUnchanged(i)
      /\ reply' # reply /\ reply'.op = "get" =>
           /\ resources' = resources
           /\ reply'.status \in {200, 400, 404}
           /\ reply'.status = 400 <=> reply'.id.nan
           /\ reply'.status = 200 <=> /\ ~reply'.id.nan
                                      /\ reply'.id.value \in DOMAIN resources
           /\ reply'.status = 200 => reply'.data = resources[reply'.id.value]
      /\ Answered("delete", 200) =>
           /\ reply'.id.value \in DOMAIN resources
           /\ reply'.id.value \notin DOMAIN resources'
           /\ OthersUnchanged(reply'.id.value)
      /\ Answered("delete", 404) =>
           /\ reply'.id.value \notin DOMAIN resources
           /\ resources' = resources
      /\ reply' # reply /\ reply'.op = "delete" /\ ~reply'.id.nan =>
           (reply'.status = 404 <=> reply'.id.value \notin DOMAIN resources)
      /\ \A i \in DOMAIN resources \ DOMAIN resources' :
           Answered("delete", 200) /\ reply'.id.value = i
      /\ \A i \in DOMAIN resources \cap DOMAIN resources' :
           resources'[i] # resources[i] =>
              Answered("update", 200) /\ reply'.id.value = i
      /\ nextId' >= nextId
    ]_vars

\* a get answered 404 for an id that a create had returned and a delete has
\* removed
C22_Witness ==
  /\ reply.op = "get"
  /\ reply.status = 404
  /\ ~reply.id.nan
  /\ reply.id.value < nextId
  /\ reply.id.value \notin DOMAIN resources

\* ---------------------------------------------------------------- C23
\* the fields a request body may supply
Fields == {"name", "description", "category", "status"}
Trimmed == {"name", "description", "category"}

\* what an update answered 200 stores in field f of the row old, given body b
Supplied(b, old, f) ==
  IF b[f].kind = "undefined" THEN old[f]
  ELSE IF f \in Trimmed THEN Text(Trim(b[f].text))
  ELSE b[f]

\* the updates that are refused change nothing: a non-existent id is answered
\* 404, a body that supplies no field is answered 400
RefusedUpdates ==
  /\ reply' # reply /\ reply'.op = "update" /\ reply'.status # 200 =>
        resources' = resources
  /\ Answered("update", 404) => reply'.id.value \notin DOMAIN resources
  /\ reply' # reply /\ reply'.op = "update" /\ ~reply'.id.nan =>
        /\ (\A f \in Fields : reply'.body[f].kind = "undefined") =>
              reply'.status = 400
        /\ /\ reply'.id.value \notin DOMAIN resources
           /\ \E f \in Fields : Truthy(reply'.body[f])
           /\ \A f \in Fields : reply'.body[f].kind # "null"
           => reply'.status = 404

EmptyName(name) == name.kind # "text" \/ Trim(name.text) = << >>

\* C30: after any sequence of create, update and delete requests every stored
\* resource has a non-empty name: create answers 400 to a name that is
\* missing, empty or only white space, and no update leaves a resource with
\* an empty name.
C30_NamesNonEmpty ==
  /\ \A i \in DOMAIN resources : ~EmptyName(resources[i].name)
  /\ reply.op = "create" /\ EmptyName(reply.body.name) => reply.status = 400

====
